---- MODULE Spec2Model ----
(***************************************************************************)
(* Model of the FAST serial communicator (communicators/base.py) and the   *)
(* FAST driver command encoder (fast_driver.py).                           *)
(*                                                                         *)
(* Bytes and characters are one-character strings; a byte string or a text *)
(* is a sequence of them.                                                  *)
(***************************************************************************)
EXTENDS Integers, Sequences, FiniteSets, TLC

\* ------------------------------------------------------------------ bounds
\* Number of send() calls of one behaviour.
MaxCmds == 4
\* Largest configured max_messages_in_flight.
MaxInFlight == 2

\* ------------------------------------------------------------- vocabulary
CR == "\r"
None == "None"
\* Processor kinds, as texts.
NET == << "N", "E", "T" >>
RGB == << "R", "G", "B" >>
\* The writer holds no dequeued command.
NoMsg == << >>

\* The commands handed to send(): distinct texts, one a prefix of another.
Cmds == { <<"W">>, <<"W", "D">>, <<"L">> }

\* outbound queue and flow control
VARIABLES dmd, max_messages_in_flight, messages_in_flight, send_ready,
          send_queue, write_task, writer_pc, writer_msg, writer_closed,
          transport, enqueued, last_step

wvars == << dmd, max_messages_in_flight, messages_in_flight, send_ready,
            send_queue, write_task, writer_pc, writer_msg, writer_closed,
            transport, enqueued, last_step >>

\* driver command encoder of one output
VARIABLES autofire, _autofire_cleared, config_state, hold_pwm_patter,
          recycle_ms, default_recycle, emitted, last_op, prev_op

\* a call of one of the encoder's pure helpers and what it returned
VARIABLES enc_call, enc_result

\* the board's side of the output: the last configuration-writing command
\* the driver sent for it, << >> while none was sent
VARIABLES loaded_cmd

dvars == << autofire, _autofire_cleared, config_state, hold_pwm_patter,
            recycle_ms, default_recycle, emitted, last_op, prev_op,
            enc_call, enc_result, loaded_cmd >>

\* inbound parser: the retained remainder, the reader task, and the history
\* of the last _parse_msg call (buffer it worked on, frames it cut, frames it
\* forwarded) and of all calls (bytes fed, frames routed)
VARIABLES received_msg, read_task, parse_buf, parse_frames, parse_fwd,
          stream, routed

\* read loop: how the last read() failed, and the machine.stop() calls
VARIABLES read_failure, machine_stop

pvars == << received_msg, read_task, parse_buf, parse_frames, parse_fwd,
            stream, routed, read_failure, machine_stop >>

\* identity and firmware gate
VARIABLES remote_processor, remote_model, remote_firmware, MIN_FW, id_msg,
          id_fields, hs_pc, registered, machine_vars, init_error

\* connect(): machine.options["production"], failed opens, and the clock of
\* the probing loop (time waited in the current read, time waited since the
\* last identity query, 'XX:' replies discarded since the last query)
VARIABLES production, open_failures, read_elapsed, query_waited, discards

hvars == << remote_processor, remote_model, remote_firmware, MIN_FW, id_msg,
            id_fields, hs_pc, registered, machine_vars, init_error,
            production, open_failures, read_elapsed, query_waited, discards >>

vars == << wvars, dvars, pvars, hvars >>

\* ================================================================ driver
\* A power fraction is a numerator over PowerDen.
PowerDen == 80000

\* Values the requests of the model carry.
Durations == { 1, 10 }
Powers == { 40000, 80000 }
HoldPowers == { 0, 40000 }
HoldDurations == { 20 }

\* self.number, self.connection.trigger_cmd / driver_cmd
Number == "07"
TRIGGER_CMD == "TN"
DRIVER_CMD == "DN"

HexDigits == << "0", "1", "2", "3", "4", "5", "6", "7",
                "8", "9", "A", "B", "C", "D", "E", "F" >>

\* Util.int_to_hex_string: two upper-case hex digits of 0..255.
IntToHexString(n) == << HexDigits[(n \div 16) + 1], HexDigits[(n % 16) + 1] >>

\* Util.pwm8_to_hex_string / Util.pwm32_to_hex_string: << steps, on >> stands
\* for the pattern with `on` of `steps` steps on.
Pwm8ToHexString(on) == << 8, on >>
Pwm32ToHexString(on) == << 32, on >>

\* A tolerance of a quarter step instead of 0.025.
get_pwm_for_cmd_quarter_step(power) ==
    IF 4 * ((power * 8) % PowerDen) < PowerDen
      THEN Pwm8ToHexString((power * 8) \div PowerDen)
      ELSE Pwm32ToHexString((power * 32) \div PowerDen)

\* get_pwm_for_cmd(power): (power * 8) - int(power * 8) < 0.025
get_pwm_for_cmd(power) ==
    IF 40 * ((power * 8) % PowerDen) < PowerDen
      THEN Pwm8ToHexString((power * 8) \div PowerDen)
      ELSE Pwm32ToHexString((power * 32) \div PowerDen)

\* platform_settings['hold_pwm_patter'] and ['recycle_ms']: << >> when absent,
\* << value >> when present.
get_hold_pwm_for_cmd(power) ==
    IF hold_pwm_patter # << >>
      THEN hold_pwm_patter[1]
      ELSE get_pwm_for_cmd(power)

\* An override test by truth value: an override of 0 counts as absent.
get_recycle_ms_for_cmd_truthy(recycle, pulse_ms) ==
    IF ~recycle THEN << "0", "0" >>
    ELSE IF recycle_ms # << >> /\ recycle_ms[1] # 0
      THEN IntToHexString(recycle_ms[1])
    ELSE IF pulse_ms * 2 > 255 THEN << "F", "F" >>
    ELSE IntToHexString(pulse_ms * 2)

\* get_recycle_ms_for_cmd(recycle, pulse_ms)
get_recycle_ms_for_cmd(recycle, pulse_ms) ==
    IF ~recycle THEN << "0", "0" >>
    ELSE IF recycle_ms # << >>
      THEN IntToHexString(recycle_ms[1])
    ELSE IF pulse_ms * 2 > 255 THEN << "F", "F" >>
    ELSE IntToHexString(pulse_ms * 2)

\* f'{trigger_cmd}:{number},XX'
TriggerCmd(arg) == << TRIGGER_CMD, Number, arg >>

\* f'{driver_cmd}:{number},00,00,00'
ResetCmd == << DRIVER_CMD, Number, "00,00,00" >>

\* '{}:{},89,00,10,{},{},{},{},00'
PulseCmd(hex_ms, pwm, hold_ms, hold_power) ==
    << DRIVER_CMD, Number, "89,00,10", hex_ms, pwm, hold_ms, hold_power, "00" >>

\* '{}:{},C1,00,18,{},{},{},{}'
EnableCmd(hex_ms, pwm, hold_pwm, recycle) ==
    << DRIVER_CMD, Number, "C1,00,18", hex_ms, pwm, hold_pwm, recycle >>

\* '{}{},81'.format(config_cmd, number)
ClearCmd == << "DN:", Number, "81" >>

\* The hardware rule command the platform hands to set_autofire.
RuleCmd(ms, power, hold) ==
    << DRIVER_CMD, Number, "rule", ms, power, hold >>

\* The record of a call: its name and, for pulse and timed_enable, the
\* requested (duration, pulse power).
Op(name, ms, power) == << name, ms, power >>

\* A re-arm that sends the rule but leaves the cached state as it found it.
Reenable_keeps_state(cleared, state) ==
    IF autofire # << >> /\ cleared
      THEN << FALSE, state, << autofire[1] >> >>
      ELSE << cleared, state, << >> >>

\* _reenable_autofire_if_configured, as a function of the state it is
\* entered with: << _autofire_cleared, config_state, commands sent >>.
Reenable(cleared, state) ==
    IF autofire # << >> /\ cleared
      THEN << FALSE, autofire[2], << autofire[1] >> >>
      ELSE << cleared, state, << >> >>

\* The commands that write an output's configuration are the ones sent under
\* driver_cmd: reset, the '89' pulse and 'C1' enable configurations, the
\* autofire rule and the '81' that clears it.  LastConfig is the last of them
\* in cmds, or before.
IsConfigCmd(cmd) == cmd[1] \in { DRIVER_CMD, "DN:" }

LastConfig(cmds, before) ==
    LET at == { i \in 1..Len(cmds) : IsConfigCmd(cmds[i]) } IN
    IF at = { } THEN before
    ELSE cmds[CHOOSE i \in at : \A j \in at : j <= i]

Called(op) ==
    /\ last_op' = op
    /\ prev_op' = last_op
    /\ loaded_cmd' = LastConfig(emitted', loaded_cmd)
    /\ UNCHANGED << hold_pwm_patter, recycle_ms, default_recycle >>
    /\ UNCHANGED << enc_call, enc_result >>
    /\ UNCHANGED << wvars, pvars, hvars >>

\* reset(): one command, no cached state touched.
reset ==
    /\ emitted' = << ResetCmd >>
    /\ Called(Op("reset", 0, 0))
    /\ UNCHANGED << autofire, _autofire_cleared, config_state >>

\* disable() without the closing '00' trigger.
disable_no_rearm ==
    LET r == Reenable(_autofire_cleared, config_state) IN
    /\ emitted' = << TriggerCmd("02") >> \o r[3]
    /\ _autofire_cleared' = r[1]
    /\ config_state' = r[2]
    /\ Called(Op("disable", 0, 0))
    /\ UNCHANGED autofire

\* disable()
disable ==
    LET r == Reenable(_autofire_cleared, config_state) IN
    /\ emitted' = << TriggerCmd("02") >> \o r[3]
                    \o (IF autofire # << >> THEN << TriggerCmd("00") >> ELSE << >>)
    /\ _autofire_cleared' = r[1]
    /\ config_state' = r[2]
    /\ Called(Op("disable", 0, 0))
    /\ UNCHANGED autofire

\* set_autofire(autofire_cmd, pulse_duration, pulse_power, hold_power)
set_autofire(autofire_cmd, pulse_duration, pulse_power, hold_power) ==
    /\ autofire' = << autofire_cmd, << pulse_duration, pulse_power, hold_power >> >>
    /\ config_state' = << pulse_duration, pulse_power, hold_power >>
    /\ _autofire_cleared' = FALSE
    /\ emitted' = << autofire_cmd >>
    /\ Called(Op("set_autofire", 0, 0))

\* clear_autofire(config_cmd, number)
clear_autofire ==
    /\ emitted' = << ClearCmd >>
    /\ autofire' = << >>
    /\ config_state' = << >>
    /\ Called(Op("clear_autofire", 0, 0))
    /\ UNCHANGED _autofire_cleared

\* An enable that compares the request with the binding's tuple instead of
\* the cached state.
enable_against_binding(duration, power, hold_power) ==
    /\ IF autofire # << >> /\ autofire[2] = << duration, power, hold_power >>
         THEN /\ emitted' = << TriggerCmd("03") >>
              /\ UNCHANGED << _autofire_cleared, config_state >>
         ELSE /\ _autofire_cleared' = TRUE
              /\ emitted' = << EnableCmd(IntToHexString(duration),
                                         get_pwm_for_cmd(power),
                                         get_hold_pwm_for_cmd(hold_power),
                                         get_recycle_ms_for_cmd(default_recycle, duration)) >>
              /\ config_state' = << duration, duration * PowerDen, hold_power >>
    /\ Called(Op("enable", duration, power) \o << hold_power >>)
    /\ UNCHANGED autofire

\* enable(pulse_settings, hold_settings); the call is recorded with the
\* requested (duration, pulse power, hold power).
enable(duration, power, hold_power) ==
    /\ IF autofire # << >> /\ config_state = << duration, power, hold_power >>
         THEN /\ emitted' = << TriggerCmd("03") >>
              /\ UNCHANGED << _autofire_cleared, config_state >>
         ELSE /\ _autofire_cleared' = TRUE
              /\ emitted' = << EnableCmd(IntToHexString(duration),
                                         get_pwm_for_cmd(power),
                                         get_hold_pwm_for_cmd(hold_power),
                                         get_recycle_ms_for_cmd(default_recycle, duration)) >>
              \* the cache takes the duration in the pulse power's place
              /\ config_state' = << duration, duration * PowerDen, hold_power >>
    /\ Called(Op("enable", duration, power) \o << hold_power >>)
    /\ UNCHANGED autofire

\* _pulse without the closing _reenable_autofire_if_configured().
_pulse_no_restore(name, duration, power, hold) ==
    LET hex_ms_string == IntToHexString(duration)
        hold_power == IF hold # << >> THEN get_hold_pwm_for_cmd(hold[1])
                                      ELSE Pwm8ToHexString(0)
        hold_ms == IF hold # << >> THEN IntToHexString(hold[2]) ELSE << "0", "0" >>
        new_state == << duration, power, IF hold # << >> THEN hold[1] ELSE 0 >>
        reconfigure == \/ config_state = << >>
                       \/ config_state[1] # new_state[1]
                       \/ config_state[2] # new_state[2]
    IN
    /\ emitted' = IF reconfigure
                    THEN << PulseCmd(hex_ms_string, get_pwm_for_cmd(power), hold_ms, hold_power) >>
                    ELSE << TriggerCmd("01") >>
    /\ _autofire_cleared' = (reconfigure \/ _autofire_cleared)
    /\ config_state' = IF reconfigure THEN new_state ELSE config_state
    /\ Called(Op(name, duration, power))
    /\ UNCHANGED autofire

\* _pulse(pulse_settings, hold_settings): hold is << >> for pulse() and
\* << hold power, hold duration >> for timed_enable().
_pulse(name, duration, power, hold) ==
    LET hex_ms_string == IntToHexString(duration)
        hold_power == IF hold # << >> THEN get_hold_pwm_for_cmd(hold[1])
                                      ELSE Pwm8ToHexString(0)
        hold_ms == IF hold # << >> THEN IntToHexString(hold[2]) ELSE << "0", "0" >>
        new_state == << duration, power, IF hold # << >> THEN hold[1] ELSE 0 >>
        reconfigure == \/ config_state = << >>
                       \/ config_state[1] # new_state[1]
                       \/ config_state[2] # new_state[2]
        r == Reenable(reconfigure \/ _autofire_cleared,
                      IF reconfigure THEN new_state ELSE config_state)
    IN
    /\ emitted' = (IF reconfigure
                     THEN << PulseCmd(hex_ms_string, get_pwm_for_cmd(power), hold_ms, hold_power) >>
                     ELSE << TriggerCmd("01") >>) \o r[3]
    /\ _autofire_cleared' = r[1]
    /\ config_state' = r[2]
    /\ Called(Op(name, duration, power))
    /\ UNCHANGED autofire

\* pulse(pulse_settings)
pulse(duration, power) == _pulse("pulse", duration, power, << >>)

\* timed_enable(pulse_settings, hold_settings)
timed_enable(duration, power, hold_power, hold_duration) ==
    _pulse("timed_enable", duration, power, << hold_power, hold_duration >>)

DriverNext ==
    \/ reset
    \/ disable
    \/ \E d \in Durations, p \in Powers, h \in HoldPowers :
          set_autofire(RuleCmd(d, p, h), d, p, h)
    \/ clear_autofire
    \/ \E d \in Durations, p \in Powers, h \in HoldPowers : enable(d, p, h)
    \/ \E d \in Durations, p \in Powers : pulse(d, p)
    \/ \E d \in Durations, p \in Powers, h \in HoldPowers, hd \in HoldDurations :
          timed_enable(d, p, h, hd)

\* __init__ of a driver with any platform settings: no autofire, nothing
\* cached; the connection is idle.
DriverInit ==
    /\ autofire = << >>
    /\ _autofire_cleared = FALSE
    /\ config_state = << >>
    /\ hold_pwm_patter \in { << >>, << Pwm8ToHexString(1) >> }
    /\ recycle_ms \in { << >>, << 0 >>, << 30 >> }
    /\ default_recycle \in BOOLEAN
    /\ emitted = << >>
    /\ last_op = Op("init", 0, 0)
    /\ prev_op = Op("init", 0, 0)
    /\ loaded_cmd = << >>
    /\ enc_call = << >>
    /\ enc_result = << >>
    /\ dmd = FALSE
    /\ max_messages_in_flight = 0
    /\ messages_in_flight = 0
    /\ send_ready = TRUE
    /\ send_queue = << >>
    /\ write_task = None
    /\ writer_pc = "get"
    /\ writer_msg = NoMsg
    /\ writer_closed = FALSE
    /\ transport = << >>
    /\ enqueued = << >>
    /\ last_step = "init"
    /\ received_msg = << >>
    /\ read_task = None
    /\ parse_buf = << >>
    /\ parse_frames = << >>
    /\ parse_fwd = << >>
    /\ stream = << >>
    /\ routed = << >>
    /\ read_failure = "none"
    /\ machine_stop = << >>
    /\ remote_processor = NET
    /\ remote_model = << >>
    /\ remote_firmware = << >>
    /\ MIN_FW = << 0, 0 >>
    /\ id_msg = << >>
    /\ id_fields = << >>
    /\ hs_pc = "registered"
    /\ registered = << NET >>
    /\ machine_vars = << >>
    /\ init_error = << >>
    /\ production = FALSE
    /\ open_failures = 0
    /\ read_elapsed = 0
    /\ query_waited = 0
    /\ discards = 0

DriverSpec == DriverInit /\ [][DriverNext]_vars

\* ------------------------------------------------------- driver: claims
IsPulse(op) == op[1] \in { "pulse", "timed_enable" }

Retriggered == emitted[1] = << TRIGGER_CMD, Number, "01" >>

Reconfigured == emitted[1][1] = DRIVER_CMD /\ emitted[1][3] = "89,00,10"

\* C5 (as stated): of two consecutive pulse or timed_enable requests on an
\* output, the second emits the short re-trigger when its (duration, pulse
\* power) equal the first's and the full '89' reconfiguration when they
\* differ, autofire binding or not.
C5_SameRequestRetriggers ==
    (IsPulse(last_op) /\ IsPulse(prev_op))
        => IF last_op[2] = prev_op[2] /\ last_op[3] = prev_op[3]
             THEN Retriggered
             ELSE Reconfigured

\* C5 (amended): on an output without an autofire binding the second of two
\* consecutive pulse or timed_enable requests emits the short re-trigger
\* when its (duration, pulse power) equal the first's and the full '89'
\* reconfiguration when they differ; on an output with an autofire binding
\* it emits the short re-trigger exactly when its (duration, pulse power)
\* equal the binding's, and the full reconfiguration otherwise.
C5_RetriggerAgainstCache ==
    (IsPulse(last_op) /\ IsPulse(prev_op))
        => IF autofire = << >>
             THEN IF last_op[2] = prev_op[2] /\ last_op[3] = prev_op[3]
                    THEN Retriggered
                    ELSE Reconfigured
             ELSE IF last_op[2] = autofire[2][1] /\ last_op[3] = autofire[2][2]
                    THEN Retriggered
                    ELSE Reconfigured

\* Two equal pulse requests in a row on an output without autofire: the
\* second was the re-trigger alone.
C5_Witness ==
    /\ IsPulse(last_op) /\ IsPulse(prev_op)
    /\ last_op[2] = prev_op[2] /\ last_op[3] = prev_op[3]
    /\ autofire = << >>
    /\ emitted = << << TRIGGER_CMD, Number, "01" >> >>

\* C6: a disable right after set_autofire emits the '02' disable trigger and
\* then the '00' trigger that re-enables autofire mode, and nothing else;
\* a disable on an output without an autofire binding emits the '02' trigger
\* alone.
C6_DisableRearmsAutofire ==
    /\ (last_op[1] = "disable" /\ prev_op[1] = "set_autofire")
          => emitted = << << TRIGGER_CMD, Number, "02" >>,
                          << TRIGGER_CMD, Number, "00" >> >>
    /\ (last_op[1] = "disable" /\ autofire = << >>)
          => emitted = << << TRIGGER_CMD, Number, "02" >> >>

C6_Witness ==
    /\ last_op[1] = "disable"
    /\ prev_op[1] = "set_autofire"
    /\ autofire # << >>
    /\ Len(emitted) = 2

\* C12: when pulse, timed_enable or disable returns on an output with an
\* autofire binding, the binding is not suspended and the cached state is the
\* binding's tuple; the rule command was emitted right after the operation's
\* own command if the binding was suspended on entry or by the operation's
\* own reconfiguration, and not at all otherwise.
C12_AutofireRestored ==
    [][ (last_op'[1] \in { "pulse", "timed_enable", "disable" } /\ autofire' # << >>)
          => LET own == emitted'[1]
                 suspended == \/ _autofire_cleared
                              \/ (own[1] = DRIVER_CMD /\ own[3] = "89,00,10")
                 rules == { i \in 1..Len(emitted') : emitted'[i] = autofire[1] }
             IN /\ ~_autofire_cleared'
                /\ config_state' = autofire'[2]
                /\ autofire' = autofire
                /\ suspended => rules = { 2 }
                /\ ~suspended => rules = { } ]_vars

\* A binding suspended by an earlier enable was re-armed by disable, between
\* the '02' and the '00' trigger.
C12_Witness ==
    /\ last_op[1] = "disable"
    /\ prev_op[1] = "enable"
    /\ autofire # << >>
    /\ emitted = << << TRIGGER_CMD, Number, "02" >>, autofire[1],
                    << TRIGGER_CMD, Number, "00" >> >>
    /\ ~_autofire_cleared
    /\ config_state = autofire[2]

IsEnableConfig(cmd) == cmd[1] = DRIVER_CMD /\ cmd[3] = "C1,00,18"

\* C13 (as stated): enable emits the '03' manual trigger exactly when an
\* autofire binding exists and the binding's (pulse duration, pulse power,
\* hold power) equals the requested tuple; otherwise it emits the full 'C1'
\* configuration and marks the binding suspended.
C13_TriggerIffBindingMatches ==
    [][ (last_op'[1] = "enable")
          => IF autofire # << >>
                  /\ autofire[2] = << last_op'[2], last_op'[3], last_op'[4] >>
               THEN emitted' = << << TRIGGER_CMD, Number, "03" >> >>
               ELSE /\ Len(emitted') = 1
                    /\ IsEnableConfig(emitted'[1])
                    /\ _autofire_cleared' ]_vars

\* C13 (amended): enable emits the '03' manual trigger exactly when an
\* autofire binding exists and the cached Driver Command State equals the
\* requested tuple; otherwise it emits the full 'C1' configuration and marks
\* the binding suspended.  While the binding is not suspended the cached
\* state is the binding's tuple, so there the binding's tuple decides.
C13_TriggerIffCacheMatches ==
    [][ (last_op'[1] = "enable")
          => LET request == << last_op'[2], last_op'[3], last_op'[4] >> IN
             /\ IF autofire # << >> /\ config_state = request
                  THEN /\ emitted' = << << TRIGGER_CMD, Number, "03" >> >>
                       /\ UNCHANGED << _autofire_cleared, config_state >>
                  ELSE /\ Len(emitted') = 1
                       /\ IsEnableConfig(emitted'[1])
                       /\ _autofire_cleared'
             /\ (autofire # << >> /\ ~_autofire_cleared)
                  => ((emitted' = << << TRIGGER_CMD, Number, "03" >> >>)
                        <=> autofire[2] = request)
             /\ autofire' = autofire ]_vars

\* An enable right after set_autofire with the binding's own tuple was the
\* manual trigger alone.
C13_Witness ==
    /\ last_op[1] = "enable"
    /\ prev_op[1] = "set_autofire"
    /\ autofire # << >>
    /\ autofire[2] = << last_op[2], last_op[3], last_op[4] >>
    /\ emitted = << << TRIGGER_CMD, Number, "03" >> >>
    /\ ~_autofire_cleared

\* The (duration, pulse power) fields a configuration-writing command
\* carries, as they stand in the command; << >> for the '81' clear and for no
\* command at all.  The rule command carries the binding's values, encoded
\* like every other command.
Carried(cmd) ==
    IF cmd = << >> \/ cmd = ClearCmd THEN << >>
    ELSE IF cmd = ResetCmd THEN << << "0", "0" >>, Pwm8ToHexString(0) >>
    ELSE IF cmd[3] = "rule"
      THEN << IntToHexString(cmd[4]), get_pwm_for_cmd(cmd[5]) >>
    ELSE << cmd[4], cmd[5] >>

\* The same fields for a request (duration, pulse power).
Requested(duration, power) ==
    << IntToHexString(duration), get_pwm_for_cmd(power) >>

\* C21: whenever pulse or timed_enable emits the short re-trigger '01' for a
\* request (duration, pulse power), the most recent configuration-writing
\* command sent for the output before it (autofire rule, '89' pulse
\* configuration, 'C1' enable configuration or reset) carried that duration
\* and pulse power.
C21_RetriggerMatchesBoard ==
    [][ (IsPulse(last_op') /\ emitted'[1] = << TRIGGER_CMD, Number, "01" >>)
          => Carried(loaded_cmd) = Requested(last_op'[2], last_op'[3]) ]_vars

\* What holds instead: the re-trigger is sent when the cached state has the
\* request's duration and pulse power, and the board has them too unless the
\* last configuration-writing command was a reset or the 'C1' of enable.
RetriggerMatchesCache ==
    [][ (IsPulse(last_op') /\ emitted'[1] = << TRIGGER_CMD, Number, "01" >>)
          => /\ config_state # << >>
             /\ config_state[1] = last_op'[2]
             /\ config_state[2] = last_op'[3]
             /\ \/ Carried(loaded_cmd) = Requested(last_op'[2], last_op'[3])
                \/ loaded_cmd = ResetCmd
                \/ IsEnableConfig(loaded_cmd) ]_vars

\* =============================================================== encoder
\* The pure helpers of the encoder, each applied once to an argument drawn by
\* the initial state.

\* Largest pulse duration handed to get_recycle_ms_for_cmd.
MaxPulseMs == 255

\* Power fractions of the four-decimal grid (0.0000 .. 1.0000) and of the
\* 1/320 grid, which holds every k/8 and every k/8 + 0.025/8.
PowerInputs == { n \in 0..PowerDen : n % 8 = 0 \/ n % 250 = 0 }

PwmCalls == { << "get_pwm_for_cmd", power >> : power \in PowerInputs }

RecycleCalls ==
    { << "get_recycle_ms_for_cmd", recycle, pulse_ms >> :
        recycle \in BOOLEAN, pulse_ms \in 0..MaxPulseMs }

\* A run of the encoder's helper leaves everything but the result alone.
Returned(result) ==
    /\ enc_result = << >>
    /\ enc_result' = << result >>
    /\ UNCHANGED << autofire, _autofire_cleared, config_state, hold_pwm_patter,
                    recycle_ms, default_recycle, emitted, last_op, prev_op,
                    enc_call, loaded_cmd >>
    /\ UNCHANGED << wvars, pvars, hvars >>

\* FASTDriver.get_pwm_for_cmd(power)
call_get_pwm_for_cmd ==
    /\ enc_call \in PwmCalls
    /\ Returned(get_pwm_for_cmd(enc_call[2]))

\* driver.get_recycle_ms_for_cmd(recycle, pulse_ms)
call_get_recycle_ms_for_cmd ==
    /\ enc_call \in RecycleCalls
    /\ Returned(get_recycle_ms_for_cmd(enc_call[2], enc_call[3]))

EncoderNext ==
    \/ call_get_pwm_for_cmd
    \/ call_get_recycle_ms_for_cmd

\* A driver with any recycle override (absent, 0, 30, 255) about to run one
\* helper on one argument.
EncoderInit ==
    /\ enc_call \in PwmCalls \cup RecycleCalls
    /\ enc_result = << >>
    /\ recycle_ms \in { << >>, << 0 >>, << 30 >>, << 255 >> }
    /\ hold_pwm_patter = << >>
    /\ default_recycle = FALSE
    /\ autofire = << >>
    /\ _autofire_cleared = FALSE
    /\ config_state = << >>
    /\ emitted = << >>
    /\ last_op = Op("init", 0, 0)
    /\ prev_op = Op("init", 0, 0)
    /\ loaded_cmd = << >>
    /\ dmd = FALSE
    /\ max_messages_in_flight = 0
    /\ messages_in_flight = 0
    /\ send_ready = TRUE
    /\ send_queue = << >>
    /\ write_task = None
    /\ writer_pc = "get"
    /\ writer_msg = NoMsg
    /\ writer_closed = FALSE
    /\ transport = << >>
    /\ enqueued = << >>
    /\ last_step = "init"
    /\ received_msg = << >>
    /\ read_task = None
    /\ parse_buf = << >>
    /\ parse_frames = << >>
    /\ parse_fwd = << >>
    /\ stream = << >>
    /\ routed = << >>
    /\ read_failure = "none"
    /\ machine_stop = << >>
    /\ remote_processor = NET
    /\ remote_model = << >>
    /\ remote_firmware = << >>
    /\ MIN_FW = << 0, 0 >>
    /\ id_msg = << >>
    /\ id_fields = << >>
    /\ hs_pc = "registered"
    /\ registered = << NET >>
    /\ machine_vars = << >>
    /\ init_error = << >>
    /\ production = FALSE
    /\ open_failures = 0
    /\ read_elapsed = 0
    /\ query_waited = 0
    /\ discards = 0

EncoderSpec == EncoderInit /\ [][EncoderNext]_vars

\* ------------------------------------------------------ encoder: claims
PwmReturned == enc_call \in PwmCalls /\ enc_result # << >>

RecycleReturned == enc_call \in RecycleCalls /\ enc_result # << >>

C19_RecycleEncoding ==
    RecycleReturned =>
        LET recycle == enc_call[2]
            pulse_ms == enc_call[3]
            clamped == IF 2 * pulse_ms < 255 THEN 2 * pulse_ms ELSE 255
        IN /\ ~recycle => enc_result[1] = << "0", "0" >>
           /\ (recycle /\ recycle_ms # << >>)
                => enc_result[1] = IntToHexString(recycle_ms[1])
           /\ (recycle /\ recycle_ms = << 0 >>) => enc_result[1] = << "0", "0" >>
           /\ (recycle /\ recycle_ms = << >>)
                => enc_result[1] = IntToHexString(clamped)
           /\ (recycle /\ recycle_ms = << >> /\ 2 * pulse_ms > 255)
                => enc_result[1] = << "F", "F" >>

\* With recycle enabled, an override of 0 won over a pulse of 200 ms.
C19_Witness ==
    /\ RecycleReturned
    /\ enc_call = << "get_recycle_ms_for_cmd", TRUE, 200 >>
    /\ recycle_ms = << 0 >>
    /\ enc_result[1] = << "0", "0" >>

\* ================================================================ writer
\* State of a connection after init() has started the writer task.  dmd,
\* max_messages_in_flight and messages_in_flight are read by _send but set
\* by the processor-specific subclass: any flag, any maximum, nothing in
\* flight.
WriterInit ==
    /\ dmd \in BOOLEAN
    /\ max_messages_in_flight \in 0..MaxInFlight
    /\ messages_in_flight = 0
    /\ send_ready = TRUE
    /\ send_queue = << >>
    /\ write_task = "running"
    /\ writer_pc = "get"
    /\ writer_msg = NoMsg
    /\ writer_closed = FALSE
    /\ transport = << >>
    /\ enqueued = << >>
    /\ last_step = "init"
    /\ autofire = << >>
    /\ _autofire_cleared = FALSE
    /\ config_state = << >>
    /\ hold_pwm_patter = << >>
    /\ recycle_ms = << >>
    /\ default_recycle = FALSE
    /\ emitted = << >>
    /\ last_op = Op("init", 0, 0)
    /\ prev_op = Op("init", 0, 0)
    /\ loaded_cmd = << >>
    /\ enc_call = << >>
    /\ enc_result = << >>
    /\ received_msg = << >>
    /\ read_task = None
    /\ parse_buf = << >>
    /\ parse_frames = << >>
    /\ parse_fwd = << >>
    /\ stream = << >>
    /\ routed = << >>
    /\ read_failure = "none"
    /\ machine_stop = << >>
    /\ remote_processor = NET
    /\ remote_model = << >>
    /\ remote_firmware = << >>
    /\ MIN_FW = << 0, 0 >>
    /\ id_msg = << >>
    /\ id_fields = << >>
    /\ hs_pc = "registered"
    /\ registered = << NET >>
    /\ machine_vars = << >>
    /\ init_error = << >>
    /\ production = FALSE
    /\ open_failures = 0
    /\ read_elapsed = 0
    /\ query_waited = 0
    /\ discards = 0

\* send(msg): put_nowait on the queue.  enqueued is the history of calls.
send(msg) ==
    /\ Len(enqueued) < MaxCmds
    /\ send_queue' = Append(send_queue, msg)
    /\ enqueued' = Append(enqueued, msg)
    /\ last_step' = "send"
    /\ UNCHANGED << dmd, max_messages_in_flight, messages_in_flight, send_ready,
                    write_task, writer_pc, writer_msg, writer_closed, transport >>
    /\ UNCHANGED << dvars, pvars, hvars >>

\* msg.encode() + b'\r'
Framed(msg) == msg \o << CR >>

\* b'BM:' + msg
BitmapFramed(msg) == << "B", "M", ":" >> \o msg

\* _send without the send_ready.clear() of the overshooting write.
_send_never_closes(msg, mif, ready) ==
    /\ transport' = Append(transport, IF dmd THEN BitmapFramed(msg) ELSE Framed(msg))
    /\ messages_in_flight' = IF dmd \/ max_messages_in_flight = 0 THEN mif ELSE mif + 1
    /\ send_ready' = ready

\* _send closing the gate one message late (>= max + 2 in flight).
_send_off_by_one(msg, mif, ready) ==
    /\ transport' = Append(transport, IF dmd THEN BitmapFramed(msg) ELSE Framed(msg))
    /\ messages_in_flight' = IF dmd \/ max_messages_in_flight = 0 THEN mif ELSE mif + 1
    /\ send_ready' = IF ~dmd /\ max_messages_in_flight > 0
                         /\ mif + 1 > max_messages_in_flight + 1
                       THEN FALSE ELSE ready

\* A _send that counts and closes the gate whatever the maximum is.
_send_counts_untracked(msg, mif, ready) ==
    /\ transport' = Append(transport, IF dmd THEN BitmapFramed(msg) ELSE Framed(msg))
    /\ messages_in_flight' = mif + 1
    /\ send_ready' = IF mif + 1 > max_messages_in_flight THEN FALSE ELSE ready

\* _send(msg) entered with in-flight count mif and gate ready.
_send(msg, mif, ready) ==
    IF dmd
      THEN /\ transport' = Append(transport, BitmapFramed(msg))
           /\ messages_in_flight' = mif
           /\ send_ready' = ready
      ELSE IF max_messages_in_flight = 0
        THEN /\ transport' = Append(transport, Framed(msg))
             /\ messages_in_flight' = mif
             /\ send_ready' = ready
        ELSE /\ messages_in_flight' = mif + 1
             /\ send_ready' = IF mif + 1 > max_messages_in_flight THEN FALSE ELSE ready
             /\ transport' = Append(transport, Framed(msg))

\* A writer that takes the newest queued command instead of the oldest.
WriterGet_lifo ==
    /\ write_task = "running"
    /\ writer_pc = "get"
    /\ send_queue # << >>
    /\ writer_msg' = send_queue[Len(send_queue)]
    /\ send_queue' = SubSeq(send_queue, 1, Len(send_queue) - 1)
    /\ writer_pc' = "wait"
    /\ last_step' = "get"
    /\ UNCHANGED << dmd, max_messages_in_flight, messages_in_flight, send_ready,
                    write_task, writer_closed, transport, enqueued >>
    /\ UNCHANGED << dvars, pvars, hvars >>

\* _socket_writer: msg = await self.send_queue.get()
WriterGet ==
    /\ write_task = "running"
    /\ writer_pc = "get"
    /\ send_queue # << >>
    /\ writer_msg' = Head(send_queue)
    /\ send_queue' = Tail(send_queue)
    /\ writer_pc' = "wait"
    /\ last_step' = "get"
    /\ UNCHANGED << dmd, max_messages_in_flight, messages_in_flight, send_ready,
                    write_task, writer_closed, transport, enqueued >>
    /\ UNCHANGED << dvars, pvars, hvars >>

\* A writer that does not wait for the gate before it writes.
WriterGateOpen_ignores_gate ==
    /\ write_task = "running"
    /\ writer_pc = "wait"
    /\ _send(writer_msg, messages_in_flight, send_ready)
    /\ writer_pc' = "get"
    /\ writer_msg' = NoMsg
    /\ last_step' = "write"
    /\ UNCHANGED << dmd, max_messages_in_flight, send_queue, write_task,
                    writer_closed, enqueued >>
    /\ UNCHANGED << dvars, pvars, hvars >>

\* _socket_writer: the gate wait returns with the gate open, then _send(msg).
\* Only _send closes the gate and only this task calls it, so the gate is
\* still open when _send runs.
WriterGateOpen ==
    /\ write_task = "running"
    /\ writer_pc = "wait"
    /\ send_ready
    /\ _send(writer_msg, messages_in_flight, send_ready)
    /\ writer_pc' = "get"
    /\ writer_msg' = NoMsg
    /\ last_step' = "write"
    /\ UNCHANGED << dmd, max_messages_in_flight, send_queue, write_task,
                    writer_closed, enqueued >>
    /\ UNCHANGED << dvars, pvars, hvars >>

\* A stall recovery that resets and opens but does not send the command.
WriterTimeout_drops ==
    /\ write_task = "running"
    /\ writer_pc = "wait"
    /\ ~send_ready
    /\ messages_in_flight' = 0
    /\ send_ready' = TRUE
    /\ writer_pc' = "get"
    /\ writer_msg' = NoMsg
    /\ last_step' = "stall"
    /\ UNCHANGED << dmd, max_messages_in_flight, send_queue, write_task,
                    writer_closed, enqueued, transport >>
    /\ UNCHANGED << dvars, pvars, hvars >>

\* _socket_writer: the gate stayed closed for 1.0 s: reset, open, _send(msg).
WriterTimeout ==
    /\ write_task = "running"
    /\ writer_pc = "wait"
    /\ ~send_ready
    /\ _send(writer_msg, 0, TRUE)
    /\ writer_pc' = "get"
    /\ writer_msg' = NoMsg
    /\ last_step' = "stall"
    /\ UNCHANGED << dmd, max_messages_in_flight, send_queue, write_task,
                    writer_closed, enqueued >>
    /\ UNCHANGED << dvars, pvars, hvars >>

\* The acknowledgement path of the inbound side: one in-flight message is
\* acknowledged; at or below the maximum the gate re-opens.
AckDecrement ==
    /\ messages_in_flight > 0
    /\ messages_in_flight' = messages_in_flight - 1
    /\ send_ready' = IF messages_in_flight - 1 <= max_messages_in_flight
                       THEN TRUE ELSE send_ready
    /\ last_step' = "ack"
    /\ UNCHANGED << dmd, max_messages_in_flight, send_queue, write_task,
                    writer_pc, writer_msg, writer_closed, transport, enqueued >>
    /\ UNCHANGED << dvars, pvars, hvars >>

\* A stop that leaves the reader task running.
stop_keeps_reader ==
    /\ write_task' = None
    /\ writer_closed' = TRUE
    /\ last_step' = "stop"
    /\ UNCHANGED << dmd, max_messages_in_flight, messages_in_flight, send_ready,
                    send_queue, writer_pc, writer_msg, transport, enqueued >>
    /\ UNCHANGED << dvars, pvars, hvars >>

\* stop(): cancel the writer task and the reader task, close the transport
\* writer, and clear the three handles.  A cancelled task is at an await
\* and never runs past it.
stop ==
    /\ write_task' = None
    /\ read_task' = None
    /\ writer_closed' = TRUE
    /\ last_step' = "stop"
    /\ UNCHANGED << dmd, max_messages_in_flight, messages_in_flight, send_ready,
                    send_queue, writer_pc, writer_msg, transport, enqueued >>
    /\ UNCHANGED << received_msg, parse_buf, parse_frames, parse_fwd, stream,
                    routed, read_failure, machine_stop >>
    /\ UNCHANGED << dvars, hvars >>

WriterNext ==
    \/ \E msg \in Cmds : send(msg)
    \/ WriterGet
    \/ WriterGateOpen
    \/ WriterTimeout
    \/ AckDecrement
    \/ stop

Spec == WriterInit /\ [][WriterNext]_vars

\* The event loop runs a task that can run, and a 1.0 s timer expires.
FairSpec ==
    /\ Spec
    /\ WF_vars(WriterGet)
    /\ WF_vars(WriterGateOpen)
    /\ WF_vars(WriterTimeout)

\* ------------------------------------------------------- writer: claims
Tracking == ~dmd /\ max_messages_in_flight > 0

C2_StallNeverDrops ==
    /\ [][ (writer_pc = "wait" /\ ~send_ready /\ last_step' = "stall")
             => /\ transport' = Append(transport, writer_msg \o << "\r" >>)
                /\ send_ready'
                /\ messages_in_flight' = 1 ]_vars
    /\ \A k \in 1..MaxCmds :
          (Len(enqueued) >= k) ~> (Len(transport) >= k \/ write_task = None)

C2_Witness ==
    /\ last_step = "stall"
    /\ send_ready
    /\ messages_in_flight = 1
    /\ Len(transport) = max_messages_in_flight + 2

\* C3: on a connection that tracks in-flight messages, an open gate implies
\* an in-flight count of at most the configured maximum.
C3_OpenGateWithinMax ==
    (max_messages_in_flight > 0 /\ send_ready)
        => messages_in_flight <= max_messages_in_flight

\* The gate was closed by an overshooting write and an acknowledgement
\* re-opened it at exactly the maximum.
C3_Witness ==
    /\ max_messages_in_flight > 0
    /\ send_ready
    /\ last_step = "ack"
    /\ messages_in_flight = max_messages_in_flight
    /\ Len(transport) > max_messages_in_flight

\* C4: on a tracking connection a write that takes the count above the
\* maximum closes the gate and still goes out; a closed gate opens only by an
\* acknowledgement that brings the count to or below the maximum, or by the
\* stall recovery.
C4_GateClosesAndStaysClosed ==
    [][ /\ (Tracking /\ last_step' \in {"write", "stall"}
              /\ messages_in_flight' > max_messages_in_flight)
           => (~send_ready' /\ Len(transport') = Len(transport) + 1)
        /\ (Tracking /\ last_step' = "ack"
              /\ messages_in_flight > max_messages_in_flight
              /\ messages_in_flight' <= max_messages_in_flight)
           => send_ready'
        /\ (~send_ready /\ send_ready')
           => \/ last_step' = "ack" /\ messages_in_flight' <= max_messages_in_flight
              \/ last_step' = "stall" ]_vars

\* The write that overshoots the maximum has just closed the gate.
C4_Witness ==
    /\ Tracking
    /\ ~send_ready
    /\ last_step = "write"
    /\ messages_in_flight = max_messages_in_flight + 1

\* C20: on a connection whose maximum in-flight count is 0 a write leaves the
\* in-flight counter and the gate as they were; the gate is open and the
\* counter 0 at every moment, whatever was written.
C20_UntrackedNeverCloses ==
    /\ [](max_messages_in_flight = 0 => (send_ready /\ messages_in_flight = 0))
    /\ [][ (max_messages_in_flight = 0 /\ Len(transport') = Len(transport) + 1)
             => /\ messages_in_flight' = messages_in_flight
                /\ send_ready' = send_ready ]_vars

\* Four commands written on an untracked connection, the gate still open.
C20_Witness ==
    /\ max_messages_in_flight = 0
    /\ ~dmd
    /\ Len(transport) = MaxCmds
    /\ last_step = "write"
    /\ send_ready
    /\ messages_in_flight = 0

\* C22: on a tracking connection with maximum M > 0 the in-flight counter
\* never exceeds M + 1, under any interleaving of writes, stall recoveries
\* and acknowledgements: a write happens only with the gate open or as the
\* stall recovery that resets the counter first, and the gate is closed
\* whenever the counter stands at M + 1.
C22_BoundedOvershoot ==
    /\ [](Tracking => messages_in_flight <= max_messages_in_flight + 1)
    /\ []((Tracking /\ messages_in_flight = max_messages_in_flight + 1)
             => ~send_ready)
    /\ [][ (Tracking /\ Len(transport') = Len(transport) + 1)
             => \/ send_ready /\ messages_in_flight' = messages_in_flight + 1
                \/ ~send_ready /\ last_step' = "stall" /\ messages_in_flight' = 1 ]_vars

\* The counter stands at M + 1 for the second time: an overshooting write
\* closed the gate, an acknowledgement re-opened it, and the next write
\* overshot again.
C22_Witness ==
    /\ Tracking
    /\ last_step = "write"
    /\ ~send_ready
    /\ messages_in_flight = max_messages_in_flight + 1
    /\ Len(transport) = max_messages_in_flight + 2

\* ================================================================ parser
\* Number of _parse_msg calls of one behaviour.
MaxChunks == 3

\* A byte that is not valid UTF-8 (0xFF): bytes.decode() raises on it.
BAD == "0xFF"

\* What one read(128) may hand to _parse_msg: delimiters alone, partial
\* frames, several frames with a trailing partial frame, an undecodable byte.
Chunks ==
    { << CR >>,
      << "X", "X", ":", "F" >>,
      << "1" >>,
      << "1", CR, "X", "X", ":", "F", CR, "S" >>,
      << "W", CR, CR >>,
      << BAD >>,
      << BAD, CR, "L", CR >> }

ignored_messages ==
    { << "R", "X", ":", "P" >>, << "S", "N", ":", "P" >>, << "S", "L", ":", "P" >>,
      << "L", "X", ":", "P" >>, << "P", "X", ":", "P" >>, << "D", "N", ":", "P" >>,
      << "D", "L", ":", "P" >>, << "X", "X", ":", "F" >>, << "R", "1", ":", "F" >>,
      << "L", "1", ":", "P" >>, << "G", "I", ":", "P" >>, << "T", "L", ":", "P" >>,
      << "T", "N", ":", "P" >>, << "X", "O", ":", "P" >>, << "X", "X", ":", "U" >>,
      << "X", "X", ":", "N" >> }

\* bytes.find(b'\r'): the first index of the delimiter, 0 when there is none.
Find(buf) ==
    IF \E i \in 1..Len(buf) : buf[i] = CR
      THEN CHOOSE i \in 1..Len(buf) :
             buf[i] = CR /\ \A j \in 1..(i - 1) : buf[j] # CR
      ELSE 0

\* msg.decode() succeeds
Decodable(msg) == \A i \in 1..Len(msg) : msg[i] # BAD

\* The while loop of _parse_msg on buffer buf, having cut `frames` and
\* forwarded `fwd`: << remainder, frames cut, frames forwarded, raised >>.
\* An empty frame is skipped before decoding; an undecodable frame raises out
\* of the loop after the buffer was advanced past it.
RECURSIVE ParseLoop(_, _, _)
ParseLoop(buf, frames, fwd) ==
    LET pos == Find(buf)
        msg == SubSeq(buf, 1, pos - 1)
        rest == SubSeq(buf, pos + 1, Len(buf))
    IN IF pos = 0 THEN << buf, frames, fwd, FALSE >>
       ELSE IF msg = << >> THEN ParseLoop(rest, Append(frames, msg), fwd)
       ELSE IF ~Decodable(msg) THEN << rest, Append(frames, msg), fwd, TRUE >>
       ELSE IF msg \notin ignored_messages
         THEN ParseLoop(rest, Append(frames, msg), Append(fwd, msg))
         ELSE ParseLoop(rest, Append(frames, msg), fwd)

\* process_received_message(msg.decode(), self.remote_processor), per frame
Routed(fwd) == [i \in 1..Len(fwd) |-> << fwd[i], remote_processor >>]

\* A _parse_msg that starts from the chunk alone and forgets the remainder
\* of the call before.
_parse_msg_forgets_remainder(msg) ==
    LET r == ParseLoop(msg, << >>, << >>) IN
    /\ read_task = "running"
    /\ Len(stream) < MaxChunks
    /\ parse_buf' = msg
    /\ received_msg' = r[1]
    /\ parse_frames' = r[2]
    /\ parse_fwd' = Routed(r[3])
    /\ routed' = routed \o Routed(r[3])
    /\ read_task' = IF r[4] THEN "failed" ELSE read_task
    /\ stream' = Append(stream, msg)
    /\ UNCHANGED << read_failure, machine_stop >>
    /\ UNCHANGED << wvars, dvars, hvars >>

\* _socket_reader: self._parse_msg(resp) on a chunk read from the transport.
\* A decode error leaves _parse_msg and ends the reader task.
_parse_msg(msg) ==
    LET r == ParseLoop(received_msg \o msg, << >>, << >>) IN
    /\ read_task = "running"
    /\ Len(stream) < MaxChunks
    /\ parse_buf' = received_msg \o msg
    /\ received_msg' = r[1]
    /\ parse_frames' = r[2]
    /\ parse_fwd' = Routed(r[3])
    /\ routed' = routed \o Routed(r[3])
    /\ read_task' = IF r[4] THEN "failed" ELSE read_task
    /\ stream' = Append(stream, msg)
    /\ UNCHANGED << read_failure, machine_stop >>
    /\ UNCHANGED << wvars, dvars, hvars >>

\* _socket_reader: read(128) got no bytes (the transport closed): read()
\* calls machine.stop and returns None, and the loop returns.
read_closed ==
    /\ read_task = "running"
    /\ read_failure' = "closed"
    /\ machine_stop' = Append(machine_stop, "Serial closed.")
    /\ read_task' = "returned"
    /\ UNCHANGED << received_msg, parse_buf, parse_frames, parse_fwd, stream, routed >>
    /\ UNCHANGED << wvars, dvars, hvars >>

\* _socket_reader: reader.read raised an exception other than a
\* cancellation: read() logs a warning and returns None, and the loop
\* returns.
read_raises ==
    /\ read_task = "running"
    /\ read_failure' = "error"
    /\ read_task' = "returned"
    /\ UNCHANGED machine_stop
    /\ UNCHANGED << received_msg, parse_buf, parse_frames, parse_fwd, stream, routed >>
    /\ UNCHANGED << wvars, dvars, hvars >>

ParserNext ==
    \/ \E msg \in Chunks : _parse_msg(msg)
    \/ read_closed
    \/ read_raises

\* A connection of either processor kind with its read loop started and
\* nothing received.
ParserInit ==
    /\ received_msg = << >>
    /\ read_task = "running"
    /\ parse_buf = << >>
    /\ parse_frames = << >>
    /\ parse_fwd = << >>
    /\ stream = << >>
    /\ routed = << >>
    /\ read_failure = "none"
    /\ machine_stop = << >>
    /\ remote_processor \in { NET, RGB }
    /\ remote_model = << >>
    /\ remote_firmware = << >>
    /\ MIN_FW = << 0, 0 >>
    /\ id_msg = << >>
    /\ id_fields = << >>
    /\ hs_pc = "registered"
    /\ registered = << remote_processor >>
    /\ machine_vars = << >>
    /\ init_error = << >>
    /\ production = FALSE
    /\ open_failures = 0
    /\ read_elapsed = 0
    /\ query_waited = 0
    /\ discards = 0
    /\ dmd = FALSE
    /\ max_messages_in_flight = 0
    /\ messages_in_flight = 0
    /\ send_ready = TRUE
    /\ send_queue = << >>
    /\ write_task = "running"
    /\ writer_pc = "get"
    /\ writer_msg = NoMsg
    /\ writer_closed = FALSE
    /\ transport = << >>
    /\ enqueued = << >>
    /\ last_step = "init"
    /\ autofire = << >>
    /\ _autofire_cleared = FALSE
    /\ config_state = << >>
    /\ hold_pwm_patter = << >>
    /\ recycle_ms = << >>
    /\ default_recycle = FALSE
    /\ emitted = << >>
    /\ last_op = Op("init", 0, 0)
    /\ prev_op = Op("init", 0, 0)
    /\ loaded_cmd = << >>
    /\ enc_call = << >>
    /\ enc_result = << >>

ParserSpec == ParserInit /\ [][ParserNext]_vars

\* ------------------------------------------------------- parser: claims
\* The positions of the delimiters of a buffer, and what they delimit.
CrPositions(buf) == { i \in 1..Len(buf) : buf[i] = CR }

NthCr(buf, n) ==
    CHOOSE i \in CrPositions(buf) :
        Cardinality({ j \in CrPositions(buf) : j <= i }) = n

FramesOf(buf) ==
    [n \in 1..Cardinality(CrPositions(buf)) |->
        SubSeq(buf, IF n = 1 THEN 1 ELSE NthCr(buf, n - 1) + 1, NthCr(buf, n) - 1)]

RemainderOf(buf) ==
    IF CrPositions(buf) = { } THEN buf
    ELSE SubSeq(buf, NthCr(buf, Cardinality(CrPositions(buf))) + 1, Len(buf))

ShouldForward(frame) == frame # << >> /\ frame \notin ignored_messages

ForwardedOf(buf) ==
    LET kept == SelectSeq(FramesOf(buf), ShouldForward)
    IN [i \in 1..Len(kept) |-> << kept[i], remote_processor >>]

\* C7: a _parse_msg call on a buffer (retained remainder plus chunk) with k
\* delimiters cuts exactly the k frames between the delimiters, in order,
\* and retains exactly the bytes after the last delimiter; no empty frame is
\* dispatched.
C7_CutsEveryFrame ==
    /\ parse_frames = FramesOf(parse_buf)
    /\ Len(parse_frames) = Cardinality(CrPositions(parse_buf))
    /\ received_msg = RemainderOf(parse_buf)
    /\ \A i \in 1..Len(parse_fwd) : parse_fwd[i][1] # << >>

\* C8: a _parse_msg call forwards, in arrival order and with the connection's
\* processor kind, exactly the complete frames of its buffer that are
\* non-empty and not equal to an ignored code; 'XX:F1' is forwarded.
C8_ForwardsExactlyTheUnignored ==
    /\ parse_fwd = ForwardedOf(parse_buf)
    /\ (\E n \in 1..Cardinality(CrPositions(parse_buf)) :
           FramesOf(parse_buf)[n] = << "X", "X", ":", "F", "1" >>)
         => \E i \in 1..Len(parse_fwd) :
               parse_fwd[i] = << << "X", "X", ":", "F", "1" >>, remote_processor >>

\* On buffers whose frames all decode, both statements hold of every call.
ParserOnDecodableFrames ==
    (\A n \in 1..Cardinality(CrPositions(parse_buf)) : Decodable(FramesOf(parse_buf)[n]))
        => (C7_CutsEveryFrame /\ C8_ForwardsExactlyTheUnignored /\ read_task # "failed")

\* The bytes of a sequence of chunks, in order.
RECURSIVE Flatten(_)
Flatten(chunks) ==
    IF chunks = << >> THEN << >> ELSE Head(chunks) \o Flatten(Tail(chunks))

\* The commands cs framed with '\r' each, as one byte string.
FrameAll(cs) == Flatten([i \in 1..Len(cs) |-> cs[i] \o << CR >>])

\* C23: however the inbound bytes were cut into the chunks of successive
\* _parse_msg calls, the frames forwarded to the router over all the calls
\* are the frames one call on the whole byte string forwards, in the same
\* order, and while no frame failed to decode the retained remainder is the
\* same too; when the bytes are commands framed with '\r' each, what is
\* forwarded is the non-empty, non-ignored commands in order.  A frame that
\* fails to decode ends the calls where it ends the one call: whatever bytes
\* follow it on the stream, one call on all of them forwards no more.
C23_ChunkingIndependence ==
    LET whole == Flatten(stream)
        once == ParseLoop(whole, << >>, << >>)
        cs == FramesOf(whole)
    IN /\ routed = Routed(once[3])
       /\ (read_task # "failed") => received_msg = once[1]
       /\ (read_task = "failed")
             => \A more \in Chunks :
                   routed = Routed(ParseLoop(whole \o more, << >>, << >>)[3])
       /\ (whole = FrameAll(cs) /\ \A i \in 1..Len(cs) : Decodable(cs[i]))
             => routed = Routed(SelectSeq(cs, ShouldForward))

\* The frame 'XX:F1' arrived in three chunks, cut in its middle and right
\* before its delimiter, and was forwarded once, whole.
C23_Witness ==
    /\ stream = << << "X", "X", ":", "F" >>, << "1" >>, << CR >> >>
    /\ routed = << << << "X", "X", ":", "F", "1" >>, remote_processor >> >>
    /\ received_msg = << >>

\* C14: a read that fails, by returning no bytes or by raising a transport
\* error, ends the read loop and signals the shutdown to the machine.
C14_ReadFailureTearsDown ==
    (read_failure # "none")
        => (read_task = "returned" /\ machine_stop # << >>)

\* Either kind of failed read ends the read loop, and no frame is dispatched
\* after it; a read that returned no bytes stopped the machine.
ReadFailureEndsLoop ==
    /\ [][ (read_failure # "none") => (routed' = routed /\ stream' = stream) ]_vars
    /\ [](read_failure # "none" => read_task = "returned")
    /\ [](read_failure = "closed" => machine_stop = << "Serial closed." >>)

\* ============================================================= handshake
\* Largest number of whitespace-separated fields of an identity reply.
MaxFields == 4

\* Texts an identity reply is made of.
FP_CPU_2000 == << "F", "P", "-", "C", "P", "U", "-", "2", "0", "0", "0" >>
V1_05 == << "1", ".", "0", "5" >>
V1_10 == << "1", ".", "1", "0" >>
V1_9 == << "1", ".", "9" >>
V2 == << "2" >>
Fields == { NET, FP_CPU_2000, V1_05, V1_10, V1_9, V2 }

\* MIN_FW of the subclasses: version.parse('0.00'), ('1.10'), ('1.10.0').
MinFirmwares == { << 0, 0 >>, << 1, 10 >>, << 1, 10, 0 >> }

\* The processor argument of the constructor.
CtorProcessor == << "n", "e", "t" >>

IdPrefix == << "I", "D", ":" >>

Digits == << "0", "1", "2", "3", "4", "5", "6", "7", "8", "9" >>

IsDigit(c) == \E i \in 1..10 : Digits[i] = c

DigitVal(c) == (CHOOSE i \in 1..10 : Digits[i] = c) - 1

\* The pieces of text between occurrences of sep, empty pieces included.
RECURSIVE SplitOn(_, _, _, _)
SplitOn(text, sep, done, cur) ==
    IF text = << >> THEN Append(done, cur)
    ELSE IF Head(text) = sep THEN SplitOn(Tail(text), sep, Append(done, cur), << >>)
    ELSE SplitOn(Tail(text), sep, done, Append(cur, Head(text)))

NonEmpty(piece) == piece # << >>

\* The whitespace of the replies: the blank and the '\r' readuntil(b'\r')
\* leaves at the end of what it returns.
Whitespace == { " ", CR }

Blanked(text) ==
    [i \in 1..Len(text) |-> IF text[i] \in Whitespace THEN " " ELSE text[i]]

\* str.split(): the maximal runs of non-whitespace.
split(text) == SelectSeq(SplitOn(Blanked(text), " ", << >>, << >>), NonEmpty)

\* int() of a run of digits
RECURSIVE IntOf(_, _)
IntOf(digits, acc) ==
    IF digits = << >> THEN acc
    ELSE IntOf(Tail(digits), 10 * acc + DigitVal(Head(digits)))

IsNumber(piece) == piece # << >> /\ \A i \in 1..Len(piece) : IsDigit(piece[i])

\* version.parse(text): << valid, release >>, the release being the numbers
\* of the dot-separated components.
VersionParse(text) ==
    LET pieces == SplitOn(text, ".", << >>, << >>) IN
    IF \A i \in 1..Len(pieces) : IsNumber(pieces[i])
      THEN << TRUE, [i \in 1..Len(pieces) |-> IntOf(pieces[i], 0)] >>
      ELSE << FALSE, << >> >>

\* packaging's comparison key of a release: trailing zeros dropped.
RECURSIVE StripZeros(_)
StripZeros(rel) ==
    IF rel # << >> /\ rel[Len(rel)] = 0
      THEN StripZeros(SubSeq(rel, 1, Len(rel) - 1))
      ELSE rel

\* tuple comparison a < b
LexLess(a, b) ==
    \/ \E i \in 1..Len(a) :
          /\ i <= Len(b)
          /\ a[i] < b[i]
          /\ \A j \in 1..(i - 1) : a[j] = b[j]
    \/ /\ Len(a) < Len(b)
       /\ \A j \in 1..Len(a) : a[j] = b[j]

\* A comparison of the releases as written, trailing zeros kept.
VersionLess_unstripped(a, b) == LexLess(a, b)

\* Version(a) < Version(b) on releases
VersionLess(a, b) == LexLess(StripZeros(a), StripZeros(b))

LowerChars == << << "N", "n" >>, << "E", "e" >>, << "T", "t" >>, << "F", "f" >>,
                 << "P", "p" >>, << "C", "c" >>, << "U", "u" >> >>

\* str.lower()
lower(text) ==
    [i \in 1..Len(text) |->
        IF \E k \in 1..Len(LowerChars) : LowerChars[k][1] = text[i]
          THEN LowerChars[CHOOSE k \in 1..Len(LowerChars) : LowerChars[k][1] = text[i]][2]
          ELSE text[i]]

\* The identity parse without the 'NET' default of the two-field form.
connect_parse_keeps_processor ==
    LET fields == split(SubSeq(id_msg, 4, Len(id_msg))) IN
    /\ hs_pc = "identified"
    /\ IF Len(fields) = 3
         THEN /\ remote_processor' = fields[1]
              /\ remote_model' = fields[2]
              /\ remote_firmware' = fields[3]
              /\ hs_pc' = "connected"
         ELSE IF Len(fields) = 2
           THEN /\ remote_model' = fields[1]
                /\ remote_firmware' = fields[2]
                /\ remote_processor' = remote_processor
                /\ hs_pc' = "connected"
           ELSE /\ hs_pc' = "value_error"
                /\ UNCHANGED << remote_processor, remote_model, remote_firmware >>
    /\ UNCHANGED << MIN_FW, id_msg, id_fields, registered, machine_vars, init_error >>
    /\ UNCHANGED << production, open_failures, read_elapsed, query_waited, discards >>
    /\ UNCHANGED << wvars, dvars, pvars >>

\* connect(), after the probing loop: msg[3:].split() unpacked into three
\* attributes, or on ValueError into two with processor 'NET'; a second
\* ValueError leaves connect().  An unpacking of the wrong length stores
\* nothing.
connect_parse ==
    LET fields == split(SubSeq(id_msg, 4, Len(id_msg))) IN
    /\ hs_pc = "identified"
    /\ IF Len(fields) = 3
         THEN /\ remote_processor' = fields[1]
              /\ remote_model' = fields[2]
              /\ remote_firmware' = fields[3]
              /\ hs_pc' = "connected"
         ELSE IF Len(fields) = 2
           THEN /\ remote_model' = fields[1]
                /\ remote_firmware' = fields[2]
                /\ remote_processor' = NET
                /\ hs_pc' = "connected"
           ELSE /\ hs_pc' = "value_error"
                /\ UNCHANGED << remote_processor, remote_model, remote_firmware >>
    /\ UNCHANGED << MIN_FW, id_msg, id_fields, registered, machine_vars, init_error >>
    /\ UNCHANGED << production, open_failures, read_elapsed, query_waited, discards >>
    /\ UNCHANGED << wvars, dvars, pvars >>

\* init(): publish firmware and model, gate on the firmware version, register
\* the connection, start the writer task.  A firmware text that is no
\* version either raises InvalidVersion or, parsed as a legacy version,
\* orders below every minimum, depending on the packaging release.
init ==
    LET fw == VersionParse(remote_firmware) IN
    /\ hs_pc = "connected"
    /\ machine_vars' = << << lower(remote_processor), "firmware", remote_firmware >>,
                          << lower(remote_processor), "model", remote_model >> >>
    /\ IF ~fw[1]
         THEN /\ \/ hs_pc' = "invalid_version" /\ init_error' = << >>
                 \/ /\ hs_pc' = "version_mismatch"
                    /\ init_error' = << remote_processor, MIN_FW, remote_firmware >>
              /\ UNCHANGED << registered, write_task >>
         ELSE IF VersionLess(fw[2], MIN_FW)
           THEN /\ hs_pc' = "version_mismatch"
                /\ init_error' = << remote_processor, MIN_FW, remote_firmware >>
                /\ UNCHANGED << registered, write_task >>
           ELSE /\ registered' = Append(registered, remote_processor)
                /\ write_task' = "running"
                /\ hs_pc' = "registered"
                /\ init_error' = << >>
    /\ UNCHANGED << remote_processor, remote_model, remote_firmware, MIN_FW,
                    id_msg, id_fields >>
    /\ UNCHANGED << production, open_failures, read_elapsed, query_waited, discards >>
    /\ UNCHANGED << dmd, max_messages_in_flight, messages_in_flight, send_ready,
                    send_queue, writer_pc, writer_msg, writer_closed, transport,
                    enqueued, last_step >>
    /\ UNCHANGED << dvars, pvars >>

HandshakeNext ==
    \/ connect_parse
    \/ init

\* The fields of a reply joined by sep, after lead, with trail at the end.
RECURSIVE Joined(_, _)
Joined(fs, sep) ==
    IF fs = << >> THEN << >>
    ELSE IF Len(fs) = 1 THEN fs[1]
    ELSE fs[1] \o sep \o Joined(Tail(fs), sep)

\* connect() holding a reply that starts with 'ID:' and ends with '\r', made
\* of up to MaxFields fields with single or double blanks between them and,
\* possibly, blanks around them; nothing parsed, nothing registered, no
\* writer task.
HandshakeInit ==
    /\ id_fields \in UNION { [1..n -> Fields] : n \in 0..MaxFields }
    /\ \E sep \in { << " " >>, << " ", " " >> }, pad \in { << >>, << " " >> } :
          id_msg = IdPrefix \o pad \o Joined(id_fields, sep) \o pad \o << CR >>
    /\ MIN_FW \in MinFirmwares
    /\ remote_processor = CtorProcessor
    /\ remote_model = << >>
    /\ remote_firmware = << >>
    /\ hs_pc = "identified"
    /\ registered = << >>
    /\ machine_vars = << >>
    /\ init_error = << >>
    /\ production = FALSE
    /\ open_failures = 0
    /\ read_elapsed = 0
    /\ query_waited = 0
    /\ discards = 0
    /\ received_msg = << >>
    /\ read_task = None
    /\ parse_buf = << >>
    /\ parse_frames = << >>
    /\ parse_fwd = << >>
    /\ stream = << >>
    /\ routed = << >>
    /\ read_failure = "none"
    /\ machine_stop = << >>
    /\ dmd = FALSE
    /\ max_messages_in_flight = 0
    /\ messages_in_flight = 0
    /\ send_ready = TRUE
    /\ send_queue = << >>
    /\ write_task = None
    /\ writer_pc = "get"
    /\ writer_msg = NoMsg
    /\ writer_closed = FALSE
    /\ transport = << >>
    /\ enqueued = << >>
    /\ last_step = "init"
    /\ autofire = << >>
    /\ _autofire_cleared = FALSE
    /\ config_state = << >>
    /\ hold_pwm_patter = << >>
    /\ recycle_ms = << >>
    /\ default_recycle = FALSE
    /\ emitted = << >>
    /\ last_op = Op("init", 0, 0)
    /\ prev_op = Op("init", 0, 0)
    /\ loaded_cmd = << >>
    /\ enc_call = << >>
    /\ enc_result = << >>

HandshakeSpec == HandshakeInit /\ [][HandshakeNext]_vars

\* ---------------------------------------------------- handshake: claims
\* The i-th number of a release, 0 beyond its end.
Component(rel, i) == IF i <= Len(rel) THEN rel[i] ELSE 0

\* a is below b in the component-wise numeric order.
NumericallyBelow(a, b) ==
    \E i \in 1..(Len(a) + Len(b)) :
        /\ Component(a, i) < Component(b, i)
        /\ \A j \in 1..(i - 1) : Component(a, j) = Component(b, j)

InitRan == hs_pc \in { "registered", "version_mismatch", "invalid_version" }

\* C9: init raises the version error, naming the processor kind and both
\* versions, exactly when the identified firmware is below the minimum in the
\* component-wise numeric order (1.05 and 1.9 are below 1.10; 1.10 is not
\* below 1.10 or 1.10.0); it then registers nothing and starts no writer
\* task; otherwise it registers the connection and starts the writer task.
C9_FirmwareGate ==
    /\ (InitRan /\ VersionParse(remote_firmware)[1])
          => /\ (hs_pc = "version_mismatch")
                   <=> NumericallyBelow(VersionParse(remote_firmware)[2], MIN_FW)
             /\ (hs_pc = "registered")
                   <=> ~NumericallyBelow(VersionParse(remote_firmware)[2], MIN_FW)
    /\ (hs_pc = "version_mismatch")
          => /\ registered = << >>
             /\ write_task = None
             /\ init_error = << remote_processor, MIN_FW, remote_firmware >>
    /\ (hs_pc = "registered")
          => /\ registered = << remote_processor >>
             /\ write_task = "running"
    /\ (write_task = "running") => (registered # << >>)
    /\ (InitRan /\ remote_firmware \in { V1_05, V1_9 } /\ MIN_FW = << 1, 10 >>)
          => hs_pc = "version_mismatch"
    /\ (InitRan /\ remote_firmware = V1_10 /\ MIN_FW \in { << 1, 10 >>, << 1, 10, 0 >> })
          => hs_pc = "registered"

\* Firmware 1.05 against the minimum 1.10 was refused.
C9_Witness ==
    /\ hs_pc = "version_mismatch"
    /\ remote_firmware = V1_05
    /\ MIN_FW = << 1, 10 >>
    /\ write_task = None

\* C10: once the identity reply is parsed, three fields a b c give processor
\* a, model b, firmware c; two fields a b give processor 'NET', model a,
\* firmware b; any other number of fields raises and leaves the three
\* attributes as they were; 'ID:NET FP-CPU-2000 1.05' gives NET,
\* FP-CPU-2000, 1.05.
C10_IdentityParse ==
    /\ (hs_pc # "identified" /\ Len(id_fields) = 3)
          => /\ hs_pc # "value_error"
             /\ << remote_processor, remote_model, remote_firmware >> = id_fields
    /\ (hs_pc # "identified" /\ Len(id_fields) = 2)
          => /\ hs_pc # "value_error"
             /\ remote_processor = << "N", "E", "T" >>
             /\ << remote_model, remote_firmware >> = id_fields
    /\ (hs_pc # "identified" /\ Len(id_fields) \notin { 2, 3 })
          => /\ hs_pc = "value_error"
             /\ remote_processor = CtorProcessor
             /\ remote_model = << >>
             /\ remote_firmware = << >>
    /\ (hs_pc # "identified"
          /\ id_msg = << "I", "D", ":", "N", "E", "T", " ",
                         "F", "P", "-", "C", "P", "U", "-", "2", "0", "0", "0", " ",
                         "1", ".", "0", "5", "\r" >>)
          => /\ remote_processor = << "N", "E", "T" >>
             /\ remote_model = << "F", "P", "-", "C", "P", "U", "-", "2", "0", "0", "0" >>
             /\ remote_firmware = << "1", ".", "0", "5" >>

\* A two-field reply was parsed with the processor kind defaulted.
C10_Witness ==
    /\ hs_pc = "connected"
    /\ id_fields = << FP_CPU_2000, V1_05 >>
    /\ remote_processor = NET
    /\ remote_model = FP_CPU_2000
    /\ remote_firmware = V1_05

\* =============================================================== connect
\* connect() from the first open of the transport to the identity reply.
\* Time is counted in ticks of a quarter of a second.

\* Failed opens of one behaviour.
MaxOpenFailures == 2
\* Identity queries written in one behaviour.
MaxProbes == 3
\* 'XX:' replies discarded after one identity query.
MaxDiscards == 2

\* _read_with_timeout(.5), in ticks.
ReadTimeout == 2

\* ((' ' * 256 * 4) + '\r').encode()
Filler == [i \in 1..(256 * 4) |-> " "] \o << CR >>

\* 'ID:\r'.encode()
IdQuery == << "I", "D", ":", CR >>

XXPrefix == << "X", "X", ":" >>

\* What readuntil(b'\r') may return while the board is probed: an
\* unrecognised-command reply, identity replies of three and of two fields,
\* another board message, and a line holding a byte that is not UTF-8.
ProbeReplies ==
    { << "X", "X", ":", "U", CR >>,
      IdPrefix \o NET \o << " " >> \o FP_CPU_2000 \o << " " >> \o V1_10 \o << CR >>,
      IdPrefix \o FP_CPU_2000 \o << " " >> \o V1_10 \o << CR >>,
      << "W", "D", ":", "P", CR >>,
      << BAD, CR >> }

\* str.startswith(prefix)
startswith(text, prefix) ==
    Len(text) >= Len(prefix) /\ SubSeq(text, 1, Len(prefix)) = prefix

\* What connect() leaves alone while it opens and probes.
ConnectFrame ==
    /\ UNCHANGED << remote_processor, remote_model, remote_firmware, MIN_FW,
                    registered, machine_vars, init_error, production >>
    /\ UNCHANGED << dmd, max_messages_in_flight, messages_in_flight, send_ready,
                    send_queue, write_task, writer_pc, writer_msg, writer_closed,
                    enqueued, last_step >>
    /\ UNCHANGED << dvars, pvars >>

\* A failed open that is retried whatever the mode.
open_serial_connection_fails_always_retries ==
    /\ hs_pc = "connecting"
    /\ open_failures < MaxOpenFailures
    /\ open_failures' = open_failures + 1
    /\ hs_pc' = "retry_sleep"
    /\ UNCHANGED << transport, id_msg, id_fields, read_elapsed, query_waited, discards >>
    /\ ConnectFrame

\* connect(): open_serial_connection raised SerialException: re-raised
\* unless machine.options["production"], else asyncio.sleep(.1).
open_serial_connection_fails ==
    /\ hs_pc = "connecting"
    /\ open_failures < MaxOpenFailures
    /\ open_failures' = open_failures + 1
    /\ hs_pc' = IF production THEN "retry_sleep" ELSE "serial_exception"
    /\ UNCHANGED << transport, id_msg, id_fields, read_elapsed, query_waited, discards >>
    /\ ConnectFrame

\* connect(): the sleep of .1 s is over; the while loop opens again.
retry_open ==
    /\ hs_pc = "retry_sleep"
    /\ hs_pc' = "connecting"
    /\ UNCHANGED << transport, id_msg, id_fields, open_failures, read_elapsed,
                    query_waited, discards >>
    /\ ConnectFrame

\* connect(): the open succeeded; buffers are reset, the filler and the first
\* 'ID:' query are written, and the first read of the reply starts.
open_serial_connection ==
    /\ hs_pc = "connecting"
    /\ transport' = << Filler, IdQuery >>
    /\ hs_pc' = "wait"
    /\ read_elapsed' = 0
    /\ query_waited' = 0
    /\ discards' = 0
    /\ UNCHANGED << id_msg, id_fields, open_failures >>
    /\ ConnectFrame

\* A quarter of a second passes inside _read_with_timeout(.5).
wait_tick ==
    /\ hs_pc = "wait"
    /\ read_elapsed < ReadTimeout
    /\ read_elapsed' = read_elapsed + 1
    /\ query_waited' = query_waited + 1
    /\ UNCHANGED << transport, id_msg, id_fields, open_failures, hs_pc, discards >>
    /\ ConnectFrame

\* The probing loop of connect() on the text msg that _read_with_timeout
\* returned: an 'XX:' text is dropped and the read starts again with a new
\* timeout of .5 s; an 'ID:' text ends the loop; any other text, the empty
\* text of a timeout included, leads to the sleep of .5 s.
probe_reply(msg) ==
    /\ id_msg' = msg
    /\ IF startswith(msg, XXPrefix)
         THEN /\ hs_pc' = "wait"
              /\ read_elapsed' = 0
              /\ discards' = discards + 1
              /\ UNCHANGED << id_fields, query_waited >>
         ELSE IF startswith(msg, IdPrefix)
           THEN /\ hs_pc' = "identified"
                /\ id_fields' = split(SubSeq(msg, 4, Len(msg)))
                /\ UNCHANGED << read_elapsed, query_waited, discards >>
           ELSE /\ hs_pc' = "probe_sleep"
                /\ UNCHANGED << id_fields, read_elapsed, query_waited, discards >>
    /\ UNCHANGED << transport, open_failures >>
    /\ ConnectFrame

\* _read_with_timeout: asyncio.wait_for timed out, the reply is ''.
read_times_out ==
    /\ hs_pc = "wait"
    /\ read_elapsed = ReadTimeout
    /\ probe_reply(<< >>)

\* _read_with_timeout: readuntil(b'\r') returned a line within the timeout;
\* msg_raw.decode() raises on a line that is not UTF-8, and connect() with it.
read_returns(msg_raw) ==
    /\ hs_pc = "wait"
    /\ startswith(msg_raw, XXPrefix) => discards < MaxDiscards
    /\ IF Decodable(msg_raw)
         THEN probe_reply(msg_raw)
         ELSE /\ hs_pc' = "decode_error"
              /\ UNCHANGED << transport, id_msg, id_fields, open_failures,
                              read_elapsed, query_waited, discards >>
              /\ ConnectFrame

\* connect(): the sleep of .5 s is over; the loop writes 'ID:' again and
\* reads.
resend_query ==
    /\ hs_pc = "probe_sleep"
    /\ Len(transport) <= MaxProbes
    /\ transport' = Append(transport, IdQuery)
    /\ hs_pc' = "wait"
    /\ read_elapsed' = 0
    /\ query_waited' = 0
    /\ discards' = 0
    /\ UNCHANGED << id_msg, id_fields, open_failures >>
    /\ ConnectFrame

ConnectNext ==
    \/ open_serial_connection
    \/ open_serial_connection_fails
    \/ retry_open
    \/ wait_tick
    \/ read_times_out
    \/ \E msg_raw \in ProbeReplies : read_returns(msg_raw)
    \/ resend_query
    \/ connect_parse

\* A communicator of either mode right after __init__, about to connect.
ConnectInit ==
    /\ production \in BOOLEAN
    /\ open_failures = 0
    /\ read_elapsed = 0
    /\ query_waited = 0
    /\ discards = 0
    /\ hs_pc = "connecting"
    /\ id_msg = << >>
    /\ id_fields = << >>
    /\ MIN_FW = << 0, 0 >>
    /\ remote_processor = CtorProcessor
    /\ remote_model = << >>
    /\ remote_firmware = << >>
    /\ registered = << >>
    /\ machine_vars = << >>
    /\ init_error = << >>
    /\ received_msg = << >>
    /\ read_task = None
    /\ parse_buf = << >>
    /\ parse_frames = << >>
    /\ parse_fwd = << >>
    /\ stream = << >>
    /\ routed = << >>
    /\ read_failure = "none"
    /\ machine_stop = << >>
    /\ dmd = FALSE
    /\ max_messages_in_flight = 0
    /\ messages_in_flight = 0
    /\ send_ready = TRUE
    /\ send_queue = << >>
    /\ write_task = None
    /\ writer_pc = "get"
    /\ writer_msg = NoMsg
    /\ writer_closed = FALSE
    /\ transport = << >>
    /\ enqueued = << >>
    /\ last_step = "init"
    /\ autofire = << >>
    /\ _autofire_cleared = FALSE
    /\ config_state = << >>
    /\ hold_pwm_patter = << >>
    /\ recycle_ms = << >>
    /\ default_recycle = FALSE
    /\ emitted = << >>
    /\ last_op = Op("init", 0, 0)
    /\ prev_op = Op("init", 0, 0)
    /\ loaded_cmd = << >>
    /\ enc_call = << >>
    /\ enc_result = << >>

ConnectSpec == ConnectInit /\ [][ConnectNext]_vars

\* The event loop resumes connect() when a sleep is over.
ConnectFairSpec ==
    /\ ConnectSpec
    /\ WF_vars(retry_open)
    /\ WF_vars(resend_query)

\* ------------------------------------------------------ connect: claims
Probing == hs_pc \in { "wait", "probe_sleep" }

\* A read of the probing loop has just returned: with a reply, with the
\* empty reply of a timeout, or by raising.
ReadEnded ==
    /\ hs_pc = "wait"
    /\ \/ hs_pc' # "wait"
       \/ discards' = discards + 1

\* What the probing loop does in one step, for the kinds of reply named by
\* the set Leaving of the states it may go to when it leaves the loop.
ProbeStep(Leaving) ==
    \* the query is written whenever a wait for a reply starts
    /\ (hs_pc # "wait" /\ hs_pc' = "wait")
          => \/ transport' = Append(transport, IdQuery)
             \/ transport = << >> /\ transport' = << Filler, IdQuery >>
    \* the loop is left only on a reply that begins with 'ID:'
    /\ (Probing /\ ~Probing')
          => /\ hs_pc' \in Leaving
             /\ hs_pc' = "identified" => startswith(id_msg', IdPrefix)
    \* an empty reply, or one that begins with neither 'ID:' nor 'XX:',
    \* leads to the pause, and the pause to the re-sent query
    /\ (ReadEnded /\ hs_pc' \notin Leaving
          /\ ~startswith(id_msg', IdPrefix) /\ ~startswith(id_msg', XXPrefix))
          => hs_pc' = "probe_sleep"
    /\ (hs_pc = "probe_sleep")
          => (hs_pc' = "wait" /\ transport' = Append(transport, IdQuery))

\* C15: the filler is written once, before anything else; 'ID:' is written
\* before every wait for a reply; the probing loop is left only on a reply
\* that begins with 'ID:'; a timeout or a reply that begins with neither
\* 'ID:' nor 'XX:' leads to the half-second pause and the re-sent query.
C15_ProbingLoop ==
    /\ [](transport # << >>
            => /\ transport[1] = Filler
               /\ \A i \in 2..Len(transport) : transport[i] = IdQuery)
    /\ [][ ProbeStep({ "identified" }) ]_vars

\* With the replies that do not decode set aside (connect() raises on them),
\* the probing loop is as C15 says.
ProbingOnDecodableReplies ==
    /\ [](transport # << >>
            => /\ transport[1] = Filler
               /\ \A i \in 2..Len(transport) : transport[i] = IdQuery)
    /\ [][ ProbeStep({ "identified", "decode_error" }) ]_vars

\* C16: the time waited for a reply to one identity query, over any number
\* of discarded 'XX:' replies, is at most the single timeout of 500 ms.
C16_SingleTimeoutBudget == query_waited <= ReadTimeout

\* A discarded 'XX:' reply does not re-send the query, and each one opens a
\* new timeout: the time waited after one query is bounded by the timeout
\* times one more than the replies discarded.
DiscardRestartsTimeout ==
    /\ [][ (discards' = discards + 1)
             => (transport' = transport /\ read_elapsed' = 0 /\ hs_pc' = "wait") ]_vars
    /\ [](query_waited <= ReadTimeout * (discards + 1))

\* C18: no byte is written before an open of the transport succeeded; a
\* failed open in production mode leads to the short sleep and from there to
\* the next open, however many opens failed before, and never to the fatal
\* error; a failed open in any other mode is raised at once and nothing
\* follows it.
C18_OpenFailureHandling ==
    /\ [](hs_pc \in { "connecting", "retry_sleep", "serial_exception" }
            => transport = << >>)
    /\ [][ (open_failures' = open_failures + 1)
             => /\ hs_pc = "connecting"
                /\ hs_pc' = IF production THEN "retry_sleep" ELSE "serial_exception" ]_vars
    /\ [][ (hs_pc = "retry_sleep") => (hs_pc' = "connecting") ]_vars
    /\ [][ hs_pc # "serial_exception" ]_vars
    /\ [](~production => open_failures <= 1)
    /\ [](hs_pc = "serial_exception" => (~production /\ open_failures = 1))
    /\ (hs_pc = "retry_sleep") ~> (hs_pc = "connecting")

\* In production mode the transport opened after two failed opens, and only
\* then were the filler and the query written.
C18_Witness ==
    /\ production
    /\ open_failures >= 2
    /\ hs_pc = "wait"
    /\ transport = << Filler, IdQuery >>

\* ============================================================== teardown
\* The writer task, the reader task and stop() on one connection.

\* What the reader is handed in this specification: one frame, and the
\* first half of a frame.
TeardownChunks == { << "L", CR >>, << "S" >> }

TeardownNext ==
    \/ \E msg \in Cmds : send(msg)
    \/ WriterGet
    \/ WriterGateOpen
    \/ WriterTimeout
    \/ AckDecrement
    \/ \E msg \in TeardownChunks : _parse_msg(msg)
    \/ stop

\* A registered connection with the writer task and the read loop started,
\* untracked or tracking with a maximum of 1.
TeardownInit ==
    /\ dmd = FALSE
    /\ max_messages_in_flight \in { 0, 1 }
    /\ messages_in_flight = 0
    /\ send_ready = TRUE
    /\ send_queue = << >>
    /\ write_task = "running"
    /\ writer_pc = "get"
    /\ writer_msg = NoMsg
    /\ writer_closed = FALSE
    /\ transport = << >>
    /\ enqueued = << >>
    /\ last_step = "init"
    /\ received_msg = << >>
    /\ read_task = "running"
    /\ parse_buf = << >>
    /\ parse_frames = << >>
    /\ parse_fwd = << >>
    /\ stream = << >>
    /\ routed = << >>
    /\ read_failure = "none"
    /\ machine_stop = << >>
    /\ autofire = << >>
    /\ _autofire_cleared = FALSE
    /\ config_state = << >>
    /\ hold_pwm_patter = << >>
    /\ recycle_ms = << >>
    /\ default_recycle = FALSE
    /\ emitted = << >>
    /\ last_op = Op("init", 0, 0)
    /\ prev_op = Op("init", 0, 0)
    /\ loaded_cmd = << >>
    /\ enc_call = << >>
    /\ enc_result = << >>
    /\ remote_processor = NET
    /\ remote_model = << >>
    /\ remote_firmware = << >>
    /\ MIN_FW = << 0, 0 >>
    /\ id_msg = << >>
    /\ id_fields = << >>
    /\ hs_pc = "registered"
    /\ registered = << NET >>
    /\ machine_vars = << >>
    /\ init_error = << >>
    /\ production = FALSE
    /\ open_failures = 0
    /\ read_elapsed = 0
    /\ query_waited = 0
    /\ discards = 0

TeardownSpec == TeardownInit /\ [][TeardownNext]_vars

\* ----------------------------------------------------- teardown: claims
Stopped == write_task = None /\ read_task = None /\ writer_closed

IsPrefix(a, b) == Len(a) <= Len(b) /\ SubSeq(b, 1, Len(a)) = a

\* C17: stop cancels the writer task and the reader task and closes the
\* transport, clearing the three handles, and writes and dispatches nothing
\* itself; once it has returned nothing more is written to the transport and
\* no inbound frame is dispatched, the command the writer holds and the
\* commands queued stay where they are, and another stop leaves the handles
\* cleared.
C17_StopAbandons ==
    [][ /\ (last_step' = "stop")
           => /\ Stopped'
              /\ transport' = transport
              /\ routed' = routed
              /\ send_queue' = send_queue
              /\ writer_msg' = writer_msg
        /\ Stopped
           => /\ Stopped'
              /\ transport' = transport
              /\ routed' = routed
              /\ writer_msg' = writer_msg
              /\ IsPrefix(send_queue, send_queue') ]_vars

\* stop came while the writer held a command at the closed gate, after
\* frames had gone both ways; a command sent since then sits in the queue
\* and nothing more was written.
C17_Witness ==
    /\ Stopped
    /\ last_step = "send"
    /\ writer_msg # NoMsg
    /\ ~send_ready
    /\ send_queue # << >>
    /\ transport # << >>
    /\ routed # << >>
    /\ Len(transport) + Len(send_queue) + 1 = Len(enqueued)

====
